---- MODULE Spec2Model ----
(***************************************************************************)
(* Model of the `digest` crate: the capability traits of lib.rs, the       *)
(* Digest wrapper of digest.rs and the vector-driven test harness of       *)
(* dev.rs (new_test!, digest_test, xof_test).                              *)
(*                                                                         *)
(* The crate implements no hash function.  The required trait methods      *)
(* (Input::process, FixedOutput::fixed_result, ...) are modelled by their  *)
(* documented contract over a small reference hasher whose state is the    *)
(* sequence of bytes it has absorbed; `fault` selects a defective          *)
(* implementation under test, which is what the harness exists to catch.   *)
(***************************************************************************)
EXTENDS Integers, Sequences, FiniteSets, TLC

VARIABLES
    hasher,     \* state of the hasher instance: the bytes absorbed so far
    owned,      \* FALSE once the instance has been consumed by `result(self)`
    op,         \* Digest API: the last call made
    prevOp,     \* Digest API: the call made before it
    arg,        \* Digest API: argument of the last `input` call
    pre,        \* hasher state before the last call (of a reset, for VariableOutput)
    ret,        \* Digest API: value returned by the last call
    fault,      \* the implementation under test
    vhasher,    \* VariableOutput instance: [size, buf]
    ctorSize,   \* VariableOutput: the size the live instance was created with
    defaultSize,\* VariableOutput: output size of the type's Default::default()
    fcalls,     \* VariableOutput: buffers the last call handed to the result closure
    index,      \* new_test: bytes of <name>.index.bin
    inputs,     \* new_test: bytes of <name>.inputs.bin
    outputs,    \* new_test: bytes of <name>.outputs.bin
    aligned,    \* new_test: the index buffer sits at an address divisible by 2
    bigEndian,  \* new_test: the host is big-endian
    testFunc,   \* new_test: $test_func, "digest_test" or "xof_test"
    movedFrom,  \* digest_test: what `hasher.result()` leaves behind `&mut D`
    pc,         \* new_test: position in the generated test function
    i,          \* new_test: enumerate() counter of the record loop
    idx,        \* new_test: the decoded [[u16; 2]; 2]
    input,      \* new_test: input slice of the current vector
    output,     \* new_test: expected output slice of the current vector
    left,       \* digest_test / xof_test: bytes not yet fed (or loop position)
    calls,      \* chunks passed to process/input in the current strategy
    stratLog,   \* outcome of each comparison made for the current vector
    buf,        \* xof_test: written prefix of `buf`, the rest is still zero
    reader,     \* xof_test: the XofReader of the byte-by-byte strategy
    desc,       \* value returned by $test_func
    report,     \* what the panic of the test function reports
    evaluated,  \* number of vectors handed to $test_func
    hasherOps,  \* number of process / finalize calls made on the hasher
    spc,        \* one_million_a: position in the function
    round,      \* one_million_a: turns of the `for _ in 0..50_000` loop made
    sh,         \* one_million_a: the hasher `sh`, a run of equal bytes
    inputCalls, \* one_million_a: number of input calls made
    lastLen,    \* one_million_a: length of the slice of the last input call
    finals,     \* one_million_a: number of result calls made
    sout,       \* one_million_a: `out`
    expected    \* one_million_a: the `expected` argument

apiVars == <<owned, op, prevOp, arg, pre, ret>>
varVars == <<vhasher, ctorSize, defaultSize, fcalls>>
dataVars == <<index, inputs, outputs, aligned, bigEndian, testFunc, movedFrom>>
stressVars == <<spc, round, sh, inputCalls, lastLen, finals, sout, expected>>
runVars == <<pc, i, idx, input, output, left, calls, stratLog, buf, reader,
             desc, report, evaluated, hasherOps>>
vars == <<hasher, owned, op, prevOp, arg, pre, ret, fault,
          vhasher, ctorSize, defaultSize, fcalls,
          index, inputs, outputs, aligned, bigEndian, testFunc, movedFrom,
          pc, i, idx, input, output, left, calls, stratLog, buf, reader,
          desc, report, evaluated, hasherOps,
          spc, round, sh, inputCalls, lastLen, finals, sout, expected>>

(***************************************************************************)
(* Bounds of the model.                                                    *)
(***************************************************************************)
MaxByte == 3
MaxChunk == 2
MaxPending == 4
\* most bytes a VariableOutput instance absorbs before it is finalized
MaxVarPending == 3
MaxSize == 3
MaxRecords == 2
MaxInputs == 5
MaxOff == 2
XofLen == 2

ByteVals == 0..MaxByte

RECURSIVE SeqsUpTo(_, _)
SeqsUpTo(S, n) ==
    IF n = 0 THEN {<<>>}
    ELSE LET shorter == SeqsUpTo(S, n - 1)
         IN  shorter \cup {Append(s, b) : s \in {t \in shorter : Len(t) = n - 1}, b \in S}

Chunks == SeqsUpTo(ByteVals, MaxChunk)

Faults == {"none", "nostream", "noreset", "noadvance", "padempty"}

(***************************************************************************)
(* The reference hasher (lib.rs traits).                                   *)
(***************************************************************************)
\* Default::default(): nothing absorbed
Default == <<>>

\* Input::process: absorbs data after what is already pending.  The
\* "nostream" implementation only keeps the first non-empty call; the
\* "padempty" implementation absorbs a zero byte when handed an empty slice.
Process(h, data) ==
    IF fault = "nostream" /\ h # <<>> THEN h
    ELSE IF fault = "padempty" /\ data = <<>> THEN h \o <<0>>
    ELSE h \o data

\* number of bytes FixedOutput produces
OutputSize == 1

HashMod == MaxByte + 1

RECURSIVE Compress(_, _)
Compress(h, msg) ==
    IF msg = <<>> THEN h
    ELSE Compress((h * (HashMod - 1) + Head(msg) + 1) % HashMod, Tail(msg))

\* FixedOutput::fixed_result(self): the digest of everything absorbed
fixed_result(h) == [k \in 1..OutputSize |-> Compress(k % HashMod, h)]

\* FixedOutput::fixed_result_reset, default body with the swap left out
fixed_result_reset_noswap(h) ==
    LET fresh == Default
    IN  [self |-> h, ret |-> fixed_result(fresh)]

\* FixedOutput::fixed_result_reset, default body:
\*   let mut hasher = Default::default(); swap(self, &mut hasher);
\*   hasher.fixed_result()
fixed_result_reset(h) ==
    LET fresh   == Default
        swapped == [self |-> fresh, hasher |-> h]
    IN  [self |-> swapped.self, ret |-> fixed_result(swapped.hasher)]

\* Digest::new
new == Default
\* Digest::input
Digest_input(h, data) == Process(h, data)
\* Digest::result
result(h) == fixed_result(h)
\* Digest::result_reset
result_reset(h) == fixed_result_reset(h)
\* Digest::digest
digest(data) ==
    LET h0 == Default
        h1 == Digest_input(h0, data)
    IN  fixed_result(h1)

(***************************************************************************)
(* VariableOutput (lib.rs).                                                *)
(***************************************************************************)
\* placeholder while no VariableOutput instance is alive
NoInstance == [size |-> 0, buf |-> <<>>]

\* the output sizes the implementation under test can produce
SupportedSizes == 1..MaxSize

\* VariableOutput::new: Err(InvalidOutputSize) for 0 and unsupported sizes
VariableOutput_new(output_size) ==
    IF output_size = 0 \/ output_size \notin SupportedSizes
    THEN [ok |-> FALSE, err |-> "InvalidOutputSize", value |-> NoInstance]
    ELSE [ok |-> TRUE, err |-> "", value |-> [size |-> output_size, buf |-> <<>>]]

\* Default::default() of a VariableOutput type: it takes no argument, so
\* its output size is the one the implementation chose for the type
VariableDefault == [size |-> defaultSize, buf |-> <<>>]

\* VariableOutput::output_size
output_size(h) == h.size

\* Input::process on a VariableOutput instance
VariableProcess(h, data) == [h EXCEPT !.buf = Process(h.buf, data)]

\* VariableOutput::variable_result(self, f): the buffer f is called with
variable_result(h) ==
    [k \in 1..h.size |-> Compress((k + h.size) % HashMod, h.buf)]

\* the reset body without the swap: the fresh instance is finalized
variable_result_reset_noswap(h) ==
    [self |-> h, f |-> <<variable_result(VariableDefault)>>]

\* VariableOutput::variable_result_reset, default body:
\*   let mut hasher = Default::default(); swap(self, &mut hasher);
\*   hasher.variable_result(f)
variable_result_reset(h) ==
    LET fresh   == VariableDefault
        swapped == [self |-> fresh, hasher |-> h]
    IN  [self |-> swapped.self, f |-> <<variable_result(swapped.hasher)>>]

(***************************************************************************)
(* Values the harness variables hold while no test function runs.          *)
(***************************************************************************)
None == "None"
NoReport == [kind |-> "none"]
NoIdx == <<>>
NoReader == [state |-> <<>>, pos |-> 0]

RunIdle ==
    /\ pc = "start"
    /\ i = 0
    /\ idx = NoIdx
    /\ input = <<>>
    /\ output = <<>>
    /\ left = 0
    /\ calls = <<>>
    /\ stratLog = <<>>
    /\ buf = <<>>
    /\ reader = NoReader
    /\ desc = None
    /\ report = NoReport
    /\ evaluated = 0
    /\ hasherOps = 0

\* an empty run of bytes: the state of a hasher that absorbed nothing
NoRun == [bytes |-> {}, len |-> 0]

StressIdle ==
    /\ spc = "idle"
    /\ round = 0
    /\ sh = NoRun
    /\ inputCalls = 0
    /\ lastLen = 0
    /\ finals = 0
    /\ sout = <<>>
    /\ expected = <<>>

HarnessIdle ==
    /\ StressIdle
    /\ index = <<>>
    /\ inputs = <<>>
    /\ outputs = <<>>
    /\ aligned = TRUE
    /\ bigEndian = FALSE
    /\ testFunc = "none"
    /\ movedFrom = "reset"
    /\ RunIdle

(***************************************************************************)
(* ExtendableOutput and XofReader (lib.rs).                                *)
(***************************************************************************)
\* byte number p (from 0) of the output stream of absorbed message msg
XofByte(msg, p) == Compress((p + 1) % HashMod, msg)

\* ExtendableOutput::xof_result(&mut self): "retrieve XOF reader and reset
\* hasher instance".  The "noreset" implementation forgets the reset.
xof_result(h) ==
    [self   |-> IF fault = "noreset" THEN h ELSE Default,
     reader |-> [state |-> h, pos |-> 0]]

\* XofReader::read(&mut self, buffer): fills a buffer of n bytes with the
\* next bytes of the stream.  The "noadvance" implementation restarts the
\* stream on every call.
XofReader_read(r, n) ==
    [bytes  |-> [k \in 1..n |-> XofByte(r.state, r.pos + k - 1)],
     reader |-> IF fault = "noadvance" THEN r ELSE [r EXCEPT !.pos = r.pos + n]]

(***************************************************************************)
(* new_test! (dev.rs): index decoding and slicing.                         *)
(***************************************************************************)
\* 2*2*2: bytes per index record
RecordSize == 8
\* the length assertion of new_test
IndexLengthOk_unchecked(ix) == TRUE

IndexLengthOk(ix) == Len(ix) % RecordSize = 0

\* index.chunks(2*2*2): chunk number n (from 0); the last one may be short
Chunk(ix, n) ==
    SubSeq(ix, n * RecordSize + 1,
           IF (n + 1) * RecordSize <= Len(ix) THEN (n + 1) * RecordSize ELSE Len(ix))

\* number of chunks index.chunks(8) yields
NumChunks(ix) == (Len(ix) + RecordSize - 1) \div RecordSize

\* byte k (from 1) behind chunk.as_ptr()
ByteAt(chunk, k) == IF k <= Len(chunk) THEN chunk[k] ELSE 0

\* a u16 loaded from two bytes at increasing addresses, in host byte order
U16Native(b0, b1) == IF bigEndian THEN 256 * b0 + b1 ELSE b0 + 256 * b1

\* u16::swap_bytes
swap_bytes(v) == (v % 256) * 256 + (v \div 256)

\* u16::to_le: identity on a little-endian host, byte swap on a big-endian one
to_le(v) == IF bigEndian THEN swap_bytes(v) ELSE v

\* *(chunk.as_ptr() as *const [[u16; 2]; 2]) followed by the to_le loop,
\* for a properly aligned chunk
DecodeRecord(chunk) ==
    LET w(k) == to_le(U16Native(ByteAt(chunk, 2 * k - 1), ByteAt(chunk, 2 * k)))
    IN  <<<<w(1), w(2)>>, <<w(3), w(4)>>>>

\* What the dereference can give.  The cast asserts an alignment of 2 that
\* a byte buffer need not have; the misaligned read is undefined: the build
\* may load the right bytes, trap, or load something else.
MisreadValues == {0, 65535}
DecodeOutcomes(chunk) ==
    IF aligned
    THEN {[trap |-> FALSE, idx |-> DecodeRecord(chunk)]}
    ELSE {[trap |-> FALSE, idx |-> DecodeRecord(chunk)],
          [trap |-> TRUE, idx |-> NoIdx]}
         \cup {[trap |-> FALSE, idx |-> <<<<g, g>>, <<g, g>>>>] : g \in MisreadValues}

\* &buffer[start..end] with the bounds clamped instead of checked
Slice_clamped(buffer, start, end) ==
    LET e == IF end > Len(buffer) THEN Len(buffer) ELSE end
    IN  [ok |-> TRUE, panic |-> NoReport, value |-> SubSeq(buffer, start + 1, e)]

\* &buffer[start..end]: core's range indexing panics, with the bounds and
\* the length in the message, when start > end or end > len
Slice(buffer, start, end) ==
    IF start > end
    THEN [ok |-> FALSE, value |-> <<>>,
          panic |-> [kind |-> "slice_index_order", start |-> start, end |-> end]]
    ELSE IF end > Len(buffer)
    THEN [ok |-> FALSE, value |-> <<>>,
          panic |-> [kind |-> "slice_end_index_len", end |-> end, len |-> Len(buffer)]]
    ELSE [ok |-> TRUE, panic |-> NoReport, value |-> SubSeq(buffer, start + 1, end)]

SliceKinds == {"slice_index_order", "slice_end_index_len"}

\* the panic! of new_test: record number, description, ranges and bytes
MismatchReport(n, d, ix, in, out) ==
    [kind |-> "mismatch", i |-> n, desc |-> d,
     input_range |-> ix[1], input |-> in,
     output_range |-> ix[2], output |-> out]

\* first statement of $test_func
FirstPc == IF testFunc = "digest_test" THEN "d1" ELSE "x1"

\* `if let Some(desc) = $test_func(..) { panic!(..) }`, body skipped
AfterTest_nopanic(d) == "next_chunk"

\* `if let Some(desc) = $test_func(..) { panic!(..) }`
AfterTest(d) == IF d # None THEN "panicked" ELSE "next_chunk"

(***************************************************************************)
(* The Digest API driven by an arbitrary caller.                           *)
(***************************************************************************)
NoRet == <<"none">>

InitDigest ==
    /\ hasher = new
    /\ owned = TRUE
    /\ op = "new"
    /\ prevOp = "none"
    /\ arg = <<>>
    /\ pre = <<>>
    /\ ret = NoRet
    /\ fault \in {"none", "nostream"}
    /\ vhasher = NoInstance
    /\ ctorSize = 0
    /\ defaultSize = 1
    /\ fcalls = <<>>
    /\ HarnessIdle

DigestNew ==
    /\ ~owned
    /\ hasher' = new
    /\ owned' = TRUE
    /\ op' = "new" /\ prevOp' = op
    /\ pre' = hasher
    /\ ret' = NoRet
    /\ UNCHANGED <<arg, fault, varVars, dataVars, stressVars, runVars>>

DigestInput ==
    /\ owned
    /\ \E data \in Chunks :
        /\ Len(hasher) + Len(data) <= MaxPending
        /\ hasher' = Digest_input(hasher, data)
        /\ arg' = data
    /\ op' = "input" /\ prevOp' = op
    /\ pre' = hasher
    /\ ret' = NoRet
    /\ UNCHANGED <<owned, fault, varVars, dataVars, stressVars, runVars>>

DigestResult ==
    /\ owned
    /\ ret' = result(hasher)
    /\ owned' = FALSE
    /\ op' = "result" /\ prevOp' = op
    /\ pre' = hasher
    /\ UNCHANGED <<hasher, arg, fault, varVars, dataVars, stressVars, runVars>>

DigestResultReset ==
    /\ owned
    /\ LET r == result_reset(hasher)
       IN  /\ hasher' = r.self
           /\ ret' = r.ret
    /\ op' = "result_reset" /\ prevOp' = op
    /\ pre' = hasher
    /\ UNCHANGED <<owned, arg, fault, varVars, dataVars, stressVars, runVars>>

NextDigest == DigestNew \/ DigestInput \/ DigestResult \/ DigestResultReset

SpecDigest == InitDigest /\ [][NextDigest]_vars

\* C1: fixed_result_reset / result_reset return what fixed_result gives on the
\* state before the call, leave self equal to a default-constructed
\* instance, and self stays usable.
C1_ResetReturnsResultAndDefault ==
    op = "result_reset" =>
        /\ ret = fixed_result(pre)
        /\ hasher = Default
        /\ owned

C1_Witness ==
    op = "result_reset" /\ Len(pre) >= 2 /\ ret # fixed_result(Default)

InitVariable ==
    /\ hasher = Default
    /\ owned = FALSE
    /\ op = "none"
    /\ prevOp = "none"
    /\ arg = <<>>
    /\ pre = NoInstance
    /\ ret = NoRet
    /\ fault = "none"
    /\ vhasher = NoInstance
    /\ ctorSize = 0
    /\ defaultSize \in SupportedSizes
    /\ fcalls = <<>>
    /\ HarnessIdle

VarNew ==
    /\ ~owned
    /\ \E n \in 0..(MaxSize + 1) :
        LET r == VariableOutput_new(n)
        IN  /\ owned' = r.ok
            /\ vhasher' = r.value
            /\ ctorSize' = IF r.ok THEN n ELSE 0
            /\ ret' = IF r.ok THEN NoRet ELSE <<r.err>>
            /\ arg' = <<n>>
    /\ op' = "new" /\ prevOp' = op
    /\ fcalls' = <<>> /\ pre' = NoInstance
    /\ UNCHANGED <<hasher, fault, defaultSize, dataVars, stressVars, runVars>>

VarProcess ==
    /\ owned
    /\ \E data \in Chunks :
        /\ Len(vhasher.buf) + Len(data) <= MaxVarPending
        /\ vhasher' = VariableProcess(vhasher, data)
    /\ op' = "process" /\ prevOp' = op
    /\ ret' = NoRet
    /\ fcalls' = <<>> /\ pre' = NoInstance
    /\ UNCHANGED <<hasher, owned, arg, fault, ctorSize, defaultSize,
                   dataVars, stressVars, runVars>>

VarResult ==
    /\ owned
    /\ fcalls' = <<variable_result(vhasher)>>
    /\ owned' = FALSE
    /\ op' = "variable_result" /\ prevOp' = op
    /\ ret' = NoRet /\ pre' = NoInstance
    /\ UNCHANGED <<hasher, arg, fault, vhasher, ctorSize, defaultSize,
                   dataVars, stressVars, runVars>>

VarResultReset ==
    /\ owned
    /\ LET r == variable_result_reset(vhasher)
       IN  /\ vhasher' = r.self
           /\ fcalls' = r.f
    /\ pre' = vhasher
    /\ op' = "variable_result_reset" /\ prevOp' = op
    /\ ret' = NoRet
    /\ UNCHANGED <<hasher, owned, arg, fault, ctorSize, defaultSize,
                   dataVars, stressVars, runVars>>

NextVariable == VarNew \/ VarProcess \/ VarResult \/ VarResultReset

SpecVariable == InitVariable /\ [][NextVariable]_vars

\* C4: an instance created by new(n) reports output_size() = n after any
\* sequence of process and variable_result_reset calls.
C4_OutputSizeFixedAtConstruction ==
    owned => output_size(vhasher) = ctorSize
(***************************************************************************)
(* digest_test and xof_test (dev.rs): helpers.                             *)
(***************************************************************************)
\* size of xof_test's `buf`
BufLen == 1024

\* `take` of the halving loop, rounded down instead of up
Take_floor(l) == l \div 2

\* `take` of one byte whatever is left
Take_one(l) == 1

\* a loop that also runs with nothing left
LoopRunning_always(l) == l >= 0

\* while left > 0
LoopRunning(l) == l > 0

\* let take = (left + 1) / 2;
Take(l) == (l + 1) \div 2

\* digest_test calls `hasher.result()` through `&mut D`, while Digest::result
\* takes self by value and resets nothing (digest.rs:22).  The source does
\* not say what the referent holds afterwards: a move leaves the pending
\* bytes in place ("kept"); an implementation of the `fixed_result(&mut self)`
\* shape of the Dummy of dev.rs:153 hands the instance back reset ("reset").
ResultLeaves(h) == IF movedFrom = "kept" THEN h ELSE Default

\* &mut buf[..n]: the first n bytes of the 1024-byte buffer
Window(b, n) == [k \in 1..n |-> IF k <= Len(b) THEN b[k] ELSE 0]

\* every write landing at the front of buf
Store_front(b, at, bytes) ==
    LET top == IF Len(bytes) > Len(b) THEN Len(bytes) ELSE Len(b)
    IN  [k \in 1..top |-> IF k <= Len(bytes) THEN bytes[k] ELSE b[k]]

\* buf after bytes were written at offset at (from 0)
Store(b, at, bytes) ==
    LET top == IF at + Len(bytes) > Len(b) THEN at + Len(bytes) ELSE Len(b)
    IN  [k \in 1..top |->
            IF k > at /\ k <= at + Len(bytes) THEN bytes[k - at]
            ELSE IF k <= Len(b) THEN b[k] ELSE 0]

Panic(r) ==
    /\ pc' = "panicked"
    /\ report' = r

\* `if hasher.result().as_slice() != output { return Some(name); }` on the
\* hasher state h, after ops further hasher calls
DigestCompare(h, name, nextPc, ops) ==
    /\ hasher' = ResultLeaves(h)
    /\ hasherOps' = hasherOps + ops
    /\ stratLog' = Append(stratLog, result(h) = output)
    /\ IF result(h) # output
       THEN desc' = name /\ pc' = "returned"
       ELSE desc' = None /\ pc' = nextPc

\* `let out = &mut buf[..output.len()]; hasher.xof_result().read(out);
\*  if out != output { return Some(name); }` on the hasher state h
XofCompare(h, b, name, nextPc, ops) ==
    IF Len(output) > BufLen
    THEN /\ Panic([kind |-> "slice_end_index_len", end |-> Len(output), len |-> BufLen])
         /\ hasher' = h
         /\ hasherOps' = hasherOps + ops - 1
         /\ UNCHANGED <<stratLog, desc, buf, reader>>
    ELSE LET x   == xof_result(h)
             rd  == XofReader_read(x.reader, Len(output))
             out == rd.bytes
         IN  /\ hasher' = x.self
             /\ hasherOps' = hasherOps + ops
             /\ buf' = Store(b, 0, out)
             /\ stratLog' = Append(stratLog, out = output)
             /\ IF out # output
                THEN desc' = name /\ pc' = "returned"
                ELSE desc' = None /\ pc' = nextPc
             /\ UNCHANGED <<reader, report>>

(***************************************************************************)
(* new_test!: the generated test function.                                 *)
(***************************************************************************)
Start ==
    /\ pc = "start"
    /\ IF IndexLengthOk(index)
       THEN /\ hasher' = Default
            /\ owned' = TRUE
            /\ pc' = "next_chunk"
            /\ UNCHANGED report
       ELSE /\ Panic([kind |-> "assert", msg |-> "invlaid index length"])
            /\ UNCHANGED <<hasher, owned>>
    /\ UNCHANGED <<op, prevOp, arg, pre, ret, fault, varVars, dataVars, stressVars,
                   i, idx, input, output, left, calls, stratLog, buf, reader,
                   desc, evaluated, hasherOps>>

NextChunk ==
    /\ pc = "next_chunk"
    /\ IF i >= NumChunks(index)
       THEN /\ pc' = "done"
            /\ UNCHANGED <<idx, report>>
       ELSE \E o \in DecodeOutcomes(Chunk(index, i)) :
                IF o.trap
                THEN /\ pc' = "crashed"
                     /\ report' = [kind |-> "trap"]
                     /\ UNCHANGED idx
                ELSE /\ pc' = "slice"
                     /\ idx' = o.idx
                     /\ UNCHANGED report
    /\ stratLog' = <<>>
    /\ UNCHANGED <<hasher, apiVars, fault, varVars, dataVars, stressVars,
                   i, input, output, left, calls, buf, reader,
                   desc, evaluated, hasherOps>>

TakeSlices ==
    /\ pc = "slice"
    /\ LET si == Slice(inputs, idx[1][1], idx[1][2])
           so == Slice(outputs, idx[2][1], idx[2][2])
       IN  IF ~si.ok
           THEN Panic(si.panic) /\ UNCHANGED <<input, output, evaluated>>
           ELSE IF ~so.ok
           THEN Panic(so.panic) /\ UNCHANGED <<input, output, evaluated>>
           ELSE /\ input' = si.value
                /\ output' = so.value
                /\ evaluated' = evaluated + 1
                /\ pc' = FirstPc
                /\ UNCHANGED report
    /\ UNCHANGED <<hasher, apiVars, fault, varVars, dataVars, stressVars,
                   i, idx, left, calls, stratLog, buf, reader, desc, hasherOps>>

Returned ==
    /\ pc = "returned"
    /\ pc' = AfterTest(desc)
    /\ IF desc # None
       THEN /\ report' = MismatchReport(i, desc, idx, input, output)
            /\ UNCHANGED i
       ELSE /\ i' = i + 1
            /\ UNCHANGED report
    /\ UNCHANGED <<hasher, apiVars, fault, varVars, dataVars, stressVars,
                   idx, input, output, left, calls, stratLog, buf, reader,
                   desc, evaluated, hasherOps>>

(***************************************************************************)
(* digest_test.                                                            *)
(***************************************************************************)
DigestFrame == UNCHANGED <<apiVars, fault, varVars, dataVars, stressVars,
                           i, idx, input, output, buf, reader, report, evaluated>>

\* whole message
D1 ==
    /\ pc = "d1"
    /\ calls' = <<input>>
    /\ DigestCompare(Digest_input(hasher, input), "whole message", "d2", 2)
    /\ UNCHANGED left
    /\ DigestFrame

\* whole message after reset
D2 ==
    /\ pc = "d2"
    /\ calls' = <<input>>
    /\ DigestCompare(Digest_input(hasher, input), "whole message after reset", "d3", 2)
    /\ UNCHANGED left
    /\ DigestFrame

\* let len = input.len(); let mut left = len;
D3Begin ==
    /\ pc = "d3"
    /\ left' = Len(input)
    /\ calls' = <<>>
    /\ pc' = "d3_loop"
    /\ UNCHANGED <<hasher, stratLog, desc, hasherOps>>
    /\ DigestFrame

\* one turn of `while left > 0`, or the comparison after the loop
D3Loop ==
    /\ pc = "d3_loop"
    /\ LET len  == Len(input)
           take == Take(left)
           sl   == Slice(input, len - left, take + len - left)
       IN  IF LoopRunning(left)
           THEN IF sl.ok
                THEN /\ hasher' = Digest_input(hasher, sl.value)
                     /\ calls' = Append(calls, sl.value)
                     /\ left' = left - take
                     /\ hasherOps' = hasherOps + 1
                     /\ UNCHANGED <<pc, stratLog, desc, report>>
                ELSE /\ Panic(sl.panic)
                     /\ UNCHANGED <<hasher, calls, left, hasherOps, stratLog, desc>>
           ELSE /\ DigestCompare(hasher, "message in pieces", "d4", 1)
                /\ UNCHANGED <<calls, left, report>>
    /\ UNCHANGED <<apiVars, fault, varVars, dataVars, stressVars,
                   i, idx, input, output, buf, reader, evaluated>>

\* input.chunks(1): the iterator starts at the first byte
D4Begin ==
    /\ pc = "d4"
    /\ left' = 0
    /\ calls' = <<>>
    /\ pc' = "d4_loop"
    /\ UNCHANGED <<hasher, stratLog, desc, hasherOps>>
    /\ DigestFrame

\* one turn of `for chunk in input.chunks(1)`, or the comparison after it
D4Loop ==
    /\ pc = "d4_loop"
    /\ IF left < Len(input)
       THEN LET chunk == <<input[left + 1]>>
            IN  /\ hasher' = Digest_input(hasher, chunk)
                /\ calls' = Append(calls, chunk)
                /\ left' = left + 1
                /\ hasherOps' = hasherOps + 1
                /\ UNCHANGED <<pc, stratLog, desc>>
       ELSE /\ DigestCompare(hasher, "message byte-by-byte", "returned", 1)
            /\ UNCHANGED <<calls, left>>
    /\ DigestFrame

(***************************************************************************)
(* xof_test.                                                               *)
(***************************************************************************)
XofFrame == UNCHANGED <<apiVars, fault, varVars, dataVars, stressVars,
                        i, idx, input, output, evaluated>>

\* let mut buf = [0u8; 1024]; whole message
X1 ==
    /\ pc = "x1"
    /\ calls' = <<input>>
    /\ XofCompare(Process(hasher, input), <<>>, "whole message", "x2", 2)
    /\ UNCHANGED left
    /\ XofFrame

\* whole message after reset
X2 ==
    /\ pc = "x2"
    /\ calls' = <<input>>
    /\ XofCompare(Process(hasher, input), buf, "whole message after reset", "x3", 2)
    /\ UNCHANGED left
    /\ XofFrame

X3Begin ==
    /\ pc = "x3"
    /\ left' = Len(input)
    /\ calls' = <<>>
    /\ pc' = "x3_loop"
    /\ UNCHANGED <<hasher, stratLog, desc, hasherOps, buf, reader, report>>
    /\ XofFrame

X3Loop ==
    /\ pc = "x3_loop"
    /\ LET len  == Len(input)
           take == Take(left)
           sl   == Slice(input, len - left, take + len - left)
       IN  IF LoopRunning(left)
           THEN IF sl.ok
                THEN /\ hasher' = Process(hasher, sl.value)
                     /\ calls' = Append(calls, sl.value)
                     /\ left' = left - take
                     /\ hasherOps' = hasherOps + 1
                     /\ UNCHANGED <<pc, stratLog, desc, report, buf, reader>>
                ELSE /\ Panic(sl.panic)
                     /\ UNCHANGED <<hasher, calls, left, hasherOps, stratLog,
                                    desc, buf, reader>>
           ELSE /\ XofCompare(hasher, buf, "message in pieces", "x4", 1)
                /\ UNCHANGED <<calls, left>>
    /\ XofFrame

\* hasher.process(input); let mut reader = hasher.xof_result();
\* let out = &mut buf[..output.len()];
X4Begin ==
    /\ pc = "x4"
    /\ calls' = <<input>>
    /\ LET h1 == Process(hasher, input)
           x  == xof_result(h1)
       IN  /\ hasher' = x.self
           /\ reader' = x.reader
           /\ hasherOps' = hasherOps + 2
           /\ IF Len(output) > BufLen
              THEN Panic([kind |-> "slice_end_index_len",
                          end |-> Len(output), len |-> BufLen])
              ELSE pc' = "x4_loop" /\ UNCHANGED report
    /\ left' = 0
    /\ UNCHANGED <<stratLog, desc, buf>>
    /\ XofFrame

\* one turn of `for chunk in out.chunks_mut(1) { reader.read(chunk) }`, or
\* the comparison after it
X4Loop ==
    /\ pc = "x4_loop"
    /\ IF left < Len(output)
       THEN LET rd == XofReader_read(reader, 1)
            IN  /\ reader' = rd.reader
                /\ buf' = Store(buf, left, rd.bytes)
                /\ left' = left + 1
                /\ UNCHANGED <<pc, stratLog, desc>>
       ELSE LET out == Window(buf, Len(output))
            IN  /\ stratLog' = Append(stratLog, out = output)
                /\ IF out # output
                   THEN desc' = "message in pieces"
                   ELSE desc' = None
                /\ pc' = "returned"
                /\ UNCHANGED <<reader, buf, left>>
    /\ UNCHANGED <<hasher, calls, hasherOps, report>>
    /\ XofFrame

NextHarness ==
    \/ Start \/ NextChunk \/ TakeSlices \/ Returned
    \/ D1 \/ D2 \/ D3Begin \/ D3Loop \/ D4Begin \/ D4Loop
    \/ X1 \/ X2 \/ X3Begin \/ X3Loop \/ X4Begin \/ X4Loop
(***************************************************************************)
(* Fixtures: the three buffers new_test includes.                          *)
(***************************************************************************)
\* <name>.inputs.bin
InputsBuf == [k \in 1..MaxInputs |-> k % (MaxByte + 1)]

\* a u16 as the two bytes the fixture holds for it
LeBytes(v) == <<v % 256, v \div 256>>

\* one index record
RecordBytes(is, ie, os, oe) == LeBytes(is) \o LeBytes(ie) \o LeBytes(os) \o LeBytes(oe)

\* expected output of a vector as a reference implementation produces it
Expected(func, msg) ==
    IF func = "digest_test" THEN [k \in 1..OutputSize |-> Compress(k % HashMod, msg)]
    ELSE [k \in 1..XofLen |-> XofByte(msg, k - 1)]

\* the same with its first byte wrong
Corrupted(out) == [out EXCEPT ![1] = (out[1] + 1) % HashMod]

\* a fixture of vectors: each takes the first n bytes of the inputs, and its
\* expected output is right (good) or not
VectorSpecs == [n : 0..MaxInputs, good : BOOLEAN]

RECURSIVE IndexOf(_, _, _)
IndexOf(func, vs, at) ==
    IF vs = <<>> THEN <<>>
    ELSE LET olen == Len(Expected(func, <<>>))
         IN  RecordBytes(0, Head(vs).n, at, at + olen)
             \o IndexOf(func, Tail(vs), at + olen)

RECURSIVE OutputsOf(_, _)
OutputsOf(func, vs) ==
    IF vs = <<>> THEN <<>>
    ELSE LET e == Expected(func, SubSeq(InputsBuf, 1, Head(vs).n))
         IN  (IF Head(vs).good THEN e ELSE Corrupted(e)) \o OutputsOf(func, Tail(vs))

Implementations ==
    {[func |-> "digest_test", fault |-> f, moved |-> m] :
        f \in {"none", "nostream", "padempty"}, m \in {"kept", "reset"}}
    \cup {[func |-> "xof_test", fault |-> f, moved |-> "reset"] : f \in Faults}

\* fixtures of well-formed vectors, run against every implementation
InitVectors ==
    \E vs \in SeqsUpTo(VectorSpecs, MaxRecords), impl \in Implementations :
        /\ index = IndexOf(impl.func, vs, 0)
        /\ inputs = InputsBuf
        /\ outputs = OutputsOf(impl.func, vs)
        /\ testFunc = impl.func
        /\ fault = impl.fault
        /\ movedFrom = impl.moved
        /\ aligned = TRUE
        /\ bigEndian = FALSE

\* arbitrary index bytes: offsets in and out of range, trailing bytes, any
\* placement of the buffer, either byte order of the host
OffsetBytes == {<<lo, hi>> : lo \in 0..MaxOff, hi \in {0, 1}}
Tails == {<<1>>, <<0, 0, 1, 0>>, <<0, 0, 0, 0, 0, 0, 1>>}
Heads == {<<>>, RecordBytes(0, 1, 0, 1)}

InitBytes ==
    \E a \in OffsetBytes, b \in OffsetBytes, c \in OffsetBytes, d \in OffsetBytes,
       hd \in Heads, al \in BOOLEAN, be \in BOOLEAN,
       func \in {"digest_test", "xof_test"} :
        /\ index = hd \o a \o b \o c \o d
        /\ inputs = InputsBuf
        /\ outputs = Expected(func, SubSeq(InputsBuf, 1, 1))
        /\ testFunc = func
        /\ fault = "none"
        /\ movedFrom = "reset"
        /\ aligned = al
        /\ bigEndian = be

\* fixtures whose index is cut short or carries stray bytes
InitMalformed ==
    \E vs \in SeqsUpTo(VectorSpecs, MaxRecords), tl \in Tails,
       func \in {"digest_test", "xof_test"} :
        /\ index = IndexOf(func, vs, 0) \o tl
        /\ inputs = InputsBuf
        /\ outputs = OutputsOf(func, vs)
        /\ testFunc = func
        /\ fault = "none"
        /\ movedFrom = "reset"
        /\ aligned = TRUE
        /\ bigEndian = FALSE

\* xof fixtures of one vector whose expected output fills xof_test's buf, or
\* is one byte longer; the reference implementation produced it
InitLong ==
    \E n \in {BufLen, BufLen + 1} :
        LET msg == SubSeq(InputsBuf, 1, 1)
        IN  /\ index = RecordBytes(0, 1, 0, n)
            /\ inputs = InputsBuf
            /\ outputs = [k \in 1..n |-> XofByte(msg, k - 1)]
            /\ testFunc = "xof_test"
            /\ fault = "none"
            /\ movedFrom = "reset"
            /\ aligned = TRUE
            /\ bigEndian = FALSE

\* digest fixtures of one vector with an empty input and any expected output
InitEmpty ==
    \E out \in [1..OutputSize -> 0..(HashMod - 1)],
       f \in {"none", "nostream", "padempty"}, m \in {"kept", "reset"} :
        /\ index = RecordBytes(0, 0, 0, OutputSize)
        /\ inputs = InputsBuf
        /\ outputs = out
        /\ testFunc = "digest_test"
        /\ fault = f
        /\ movedFrom = m
        /\ aligned = TRUE
        /\ bigEndian = FALSE

InitHarness ==
    /\ hasher = Default
    /\ owned = FALSE
    /\ op = "none"
    /\ prevOp = "none"
    /\ arg = <<>>
    /\ pre = <<>>
    /\ ret = NoRet
    /\ vhasher = NoInstance
    /\ ctorSize = 0
    /\ defaultSize = 1
    /\ fcalls = <<>>
    /\ RunIdle
    /\ StressIdle
    /\ (InitVectors \/ InitBytes \/ InitMalformed \/ InitLong \/ InitEmpty)

Spec == InitHarness /\ [][NextHarness]_vars
(***************************************************************************)
(* Properties of the harness.                                              *)
(***************************************************************************)
RECURSIVE Flatten(_)
Flatten(cs) == IF cs = <<>> THEN <<>> ELSE Head(cs) \o Flatten(Tail(cs))

CeilHalf(n) == (n \div 2) + (n % 2)

StrategyStarts == {"d1", "d2", "d3", "d4", "x1", "x2", "x3", "x4"}
InTest == StrategyStarts \cup {"d3_loop", "d4_loop", "x3_loop", "x4_loop", "returned"}

OutOfRange(buffer, r) == r[1] > r[2] \/ r[2] > Len(buffer)

\* C3: in the halving loop of digest_test and xof_test the chunks fed so
\* far are consecutive non-empty front slices of the input, each of length
\* ceil(remaining / 2); the next slice lies inside the input; when the loop
\* ends their concatenation is the whole input.
C3_HalvingFeedsWholeInput ==
    pc \in {"d3_loop", "x3_loop"} =>
        /\ left >= 0 /\ left <= Len(input)
        /\ Flatten(calls) = SubSeq(input, 1, Len(input) - left)
        /\ \A k \in 1..Len(calls) :
              LET remaining == Len(input) - Len(Flatten(SubSeq(calls, 1, k - 1)))
              IN  calls[k] # <<>> /\ Len(calls[k]) = CeilHalf(remaining)
        /\ left > 0 => (Len(input) - left) + CeilHalf(left) <= Len(input)
        /\ left = 0 => Flatten(calls) = input

C3_Witness ==
    /\ pc = "d3_loop" /\ left = 0
    /\ Len(input) = 5 /\ Len(calls) = 3 /\ Len(calls[1]) = 3

\* C5 (as claimed): whenever a vector mismatches, every record of the index
\* has been handed to the test function by the time the harness stops.
C5_AllVectorsChecked ==
    (pc \in {"done", "panicked"} /\ report.kind = "mismatch") =>
        evaluated = NumChunks(index)

\* C5 (amended): the first mismatch ends the run.  The strategies after the
\* failing one are skipped, the panic reports the failing vector, no later
\* vector is handed to the test function; all records are processed only
\* when the loop runs to its end with no mismatch.
C5_FirstMismatchEndsRun ==
    /\ (pc = "panicked" /\ report.kind = "mismatch") =>
          /\ report.i = i /\ evaluated = i + 1
          /\ report.desc = desc /\ desc # None
          /\ Len(stratLog) \in 1..4
          /\ \A k \in 1..Len(stratLog) : stratLog[k] = (k < Len(stratLog))
    /\ pc \in {"next_chunk", "slice"} => desc = None
    /\ pc = "done" => (evaluated = NumChunks(index) /\ desc = None)

C5_Witness ==
    /\ pc = "panicked" /\ report.kind = "mismatch"
    /\ i = 0 /\ NumChunks(index) = 2 /\ Len(stratLog) = 2

\* C6: an index whose length is not a multiple of 8 is rejected by the
\* assertion before the hasher exists: no record is decoded, no hasher call
\* is made and no vector is evaluated.
C6_MalformedIndexRejectedFirst ==
    Len(index) % 8 # 0 =>
        /\ pc \in {"start", "panicked"}
        /\ pc = "panicked" => report.kind = "assert"
        /\ idx = NoIdx /\ ~owned
        /\ hasherOps = 0 /\ evaluated = 0 /\ stratLog = <<>> /\ calls = <<>>

C6_Witness ==
    pc = "panicked" /\ Len(index) % 8 # 0 /\ Len(index) > 8

\* C7: every record decodes to four little-endian u16 in the order
\* (input_start, input_end, output_start, output_end), whatever the host.
C7_DecodesLittleEndianFields ==
    pc = "slice" =>
        LET c == Chunk(index, i)
        IN  idx = <<<<c[1] + 256 * c[2], c[3] + 256 * c[4]>>,
                    <<c[5] + 256 * c[6], c[7] + 256 * c[8]>>>>

\* the strategy each description names
StrategyNamed(d) ==
    CASE d = "whole message" -> 1
      [] d = "whole message after reset" -> 2
      [] d = "message in pieces" -> 3
      [] d = "message byte-by-byte" -> 4
      [] OTHER -> 0

\* C8: the description returned on a mismatch names the strategy that
\* failed.
C8_DescriptionNamesFailedStrategy ==
    (pc = "returned" /\ desc # None) => StrategyNamed(desc) = Len(stratLog)

\* C9 (as claimed): the report of an out-of-range slice carries the index of
\* the offending record.
C9_SlicePanicCarriesRecordIndex ==
    (pc = "panicked" /\ report.kind \in SliceKinds) =>
        ("i" \in DOMAIN report /\ report.i = i)

\* C9 (amended): decoding passes offsets on unchecked; a record whose
\* decoded input or output range lies outside its buffer never reaches the
\* test function: taking the slice panics, and that panic reports the
\* bounds and the buffer length, not the record.
C9_OutOfRangePanicsAtSlice ==
    /\ pc \in InTest =>
          /\ ~OutOfRange(inputs, idx[1]) /\ ~OutOfRange(outputs, idx[2])
          /\ input = SubSeq(inputs, idx[1][1] + 1, idx[1][2])
          /\ output = SubSeq(outputs, idx[2][1] + 1, idx[2][2])
    /\ (pc = "panicked" /\ report.kind \in SliceKinds /\ evaluated <= i) =>
          /\ OutOfRange(inputs, idx[1]) \/ OutOfRange(outputs, idx[2])
          /\ DOMAIN report \subseteq {"kind", "start", "end", "len"}

C9_Witness ==
    /\ pc = "panicked" /\ report.kind = "slice_end_index_len"
    /\ i = 1 /\ evaluated = 1
    /\ ~OutOfRange(inputs, idx[1]) /\ OutOfRange(outputs, idx[2])

\* C10: with a correct implementation every strategy of every vector
\* starts on a hasher in the freshly constructed state.
C10_StrategiesStartFresh ==
    (fault = "none" /\ pc \in StrategyStarts) => hasher = Default

(***************************************************************************)
(* one_million_a (dev.rs).  Every slice it feeds is a run of one byte      *)
(* value, so the hasher state (the bytes absorbed) is kept as the set of   *)
(* byte values seen and the number of bytes.                               *)
(***************************************************************************)
\* b'a'
ByteA == 97
\* for _ in 0..50_000
LoopRounds == 50000
\* [b'a'; 10]
SmallLen == 10
\* [b'a'; 500_000]
BigLen == 500000

\* the range 0..50_000 taken as 0..=50_000
InLoopRange_inclusive(k) == k <= LoopRounds

\* `for _ in 0..50_000`: the loop makes another turn after k turns
InLoopRange(k) == k < LoopRounds

\* Digest::input of the slice [byte; len] on a run
RunInput(st, byte, len) ==
    [bytes |-> IF len > 0 THEN st.bytes \cup {byte} ELSE st.bytes,
     len   |-> st.len + len]

\* Compress over n bytes of value b: one step is h -> (b + 1 - h) mod
\* HashMod, which is its own inverse
RunCompress(h, b, n) ==
    IF n % 2 = 0 THEN h ELSE (h * (HashMod - 1) + b + 1) % HashMod

\* Digest::result of a run of ByteA
RunResult(st) == [k \in 1..OutputSize |-> RunCompress(k % HashMod, ByteA, st.len)]

InitStress ==
    /\ hasher = Default
    /\ owned = FALSE
    /\ op = "none"
    /\ prevOp = "none"
    /\ arg = <<>>
    /\ pre = <<>>
    /\ ret = NoRet
    /\ fault = "none"
    /\ vhasher = NoInstance
    /\ ctorSize = 0
    /\ defaultSize = 1
    /\ fcalls = <<>>
    /\ index = <<>>
    /\ inputs = <<>>
    /\ outputs = <<>>
    /\ aligned = TRUE
    /\ bigEndian = FALSE
    /\ testFunc = "none"
    /\ movedFrom = "reset"
    /\ RunIdle
    /\ spc = "begin"
    /\ round = 0
    /\ sh = NoRun
    /\ inputCalls = 0
    /\ lastLen = 0
    /\ finals = 0
    /\ sout = <<>>
    /\ expected \in [1..OutputSize -> 0..(HashMod - 1)]

StressFrame == UNCHANGED <<hasher, apiVars, fault, varVars, dataVars, runVars, expected>>

\* let mut sh = D::default();
StressBegin ==
    /\ spc = "begin"
    /\ sh' = NoRun
    /\ spc' = "loop"
    /\ UNCHANGED <<round, inputCalls, lastLen, finals, sout>>
    /\ StressFrame

\* one turn of the loop: sh.input(&[b'a'; 10]), or the loop's end
StressLoop ==
    /\ spc = "loop"
    /\ IF InLoopRange(round)
       THEN /\ sh' = RunInput(sh, ByteA, SmallLen)
            /\ inputCalls' = inputCalls + 1
            /\ lastLen' = SmallLen
            /\ round' = round + 1
            /\ UNCHANGED spc
       ELSE /\ spc' = "big"
            /\ UNCHANGED <<sh, inputCalls, lastLen, round>>
    /\ UNCHANGED <<finals, sout>>
    /\ StressFrame

\* sh.input(&[b'a'; 500_000]);
StressBig ==
    /\ spc = "big"
    /\ sh' = RunInput(sh, ByteA, BigLen)
    /\ inputCalls' = inputCalls + 1
    /\ lastLen' = BigLen
    /\ spc' = "result"
    /\ UNCHANGED <<round, finals, sout>>
    /\ StressFrame

\* let out = sh.result(); assert_eq!(out[..], expected[..]);
StressResult ==
    /\ spc = "result"
    /\ sout' = RunResult(sh)
    /\ finals' = finals + 1
    /\ spc' = IF RunResult(sh) = expected THEN "done" ELSE "panicked"
    /\ UNCHANGED <<round, sh, inputCalls, lastLen>>
    /\ StressFrame

NextStress == StressBegin \/ StressLoop \/ StressBig \/ StressResult

SpecStress == InitStress /\ [][NextStress]_vars

StressFed == {"result", "done", "panicked"}

\* C11 (as claimed): one_million_a hashes 500,010 bytes in total.
C11_Hashes500010Bytes ==
    spc \in StressFed => sh.len = 500010

\* C11 (amended): one_million_a feeds 50,000 input calls of 10 bytes each
\* and then one input call of 500,000 bytes, 1,000,000 bytes in total, all
\* of one value, and compares the single final digest to the expected one.
C11_HashesOneMillionBytes ==
    /\ spc = "loop" =>
          /\ round <= 50000 /\ inputCalls = round /\ sh.len = 10 * round
          /\ round > 0 => lastLen = 10
          /\ finals = 0
    /\ spc = "big" => (inputCalls = 50000 /\ sh.len = 500000 /\ finals = 0)
    /\ spc \in StressFed =>
          /\ inputCalls = 50001 /\ lastLen = 500000
          /\ sh.len = 1000000 /\ sh.bytes = {97}
    /\ spc = "result" => finals = 0
    /\ spc \in {"done", "panicked"} =>
          /\ finals = 1
          /\ (spc = "done") <=> (sout = expected)

C11_Witness ==
    spc = "done" /\ sh.len = 1000000 /\ inputCalls = 50001 /\ sout = expected

\* C12: in the byte-by-byte strategy of xof_test, on an implementation
\* whose reads advance the stream, the one-byte reads made so far on the
\* single reader filled consecutive positions of the compared buffer with
\* what one read of that many bytes gives on a reader of the same hasher
\* state; the loop makes output.len() of them.
C12_ByteReadsComposeToBulkRead ==
    (pc = "x4_loop" /\ fault # "noadvance") =>
        /\ left <= Len(output)
        /\ reader.pos = left
        /\ reader.state = Process(Default, input) \/ fault # "none"
        /\ Window(buf, left)
             = XofReader_read([state |-> reader.state, pos |-> 0], left).bytes

C12_Witness ==
    /\ pc = "x4_loop" /\ fault = "none"
    /\ left = Len(output) /\ Len(output) >= 2
    /\ Window(buf, left) = output /\ buf[1] # buf[2]

\* C13: the default variable_result_reset calls the closure once, with a
\* buffer of the length output_size had before the call holding what
\* variable_result gives for the pre-call state, and leaves the caller an
\* instance it still owns, with nothing absorbed, ready for process.
C13_ResetFinalizesPreCallState ==
    op = "variable_result_reset" =>
        /\ Len(fcalls) = 1
        /\ Len(fcalls[1]) = output_size(pre)
        /\ fcalls[1] = variable_result(pre)
        /\ owned
        /\ vhasher.buf = <<>> /\ output_size(vhasher) \in SupportedSizes

C13_Witness ==
    /\ op = "variable_result_reset"
    /\ pre.buf # <<>> /\ output_size(pre) # defaultSize
    /\ fcalls = <<variable_result(pre)>>
    /\ fcalls[1] # variable_result(VariableDefault)

\* a process call made on the instance a reset left behind
C13_UsableWitness ==
    /\ op = "process" /\ prevOp = "variable_result_reset"
    /\ vhasher.buf # <<>> /\ output_size(vhasher) = defaultSize

RECURSIVE Log2Floor(_)
Log2Floor(n) == IF n <= 1 THEN 0 ELSE 1 + Log2Floor(n \div 2)

\* process calls the halving loop makes on n bytes
HalvingCalls(n) == IF n = 0 THEN 0 ELSE Log2Floor(n) + 1

HalvingLoops == {"d3_loop", "x3_loop"}

\* fixtures whose index is decoded as written (aligned buffer, little-endian
\* host), every input length, outputs shorter than xof_test's buf
InitFair ==
    InitHarness /\ aligned = TRUE /\ bigEndian = FALSE /\ Len(outputs) < BufLen

\* a running test is never suspended for ever between two of its steps
FairSpec == InitFair /\ [][NextHarness]_vars /\ WF_vars(NextHarness)

\* C14: the halving loop terminates: every iteration makes one process
\* call and leaves strictly fewer bytes, never fewer than zero; the calls
\* made plus the calls still due are HalvingCalls(n), so the loop leaves
\* after 0 calls for n = 0 and floor(log2(n)) + 1 calls for n > 0; under
\* fair scheduling the loop is always left.
C14_HalvingLoopTerminates ==
    /\ [](pc \in HalvingLoops =>
            /\ left >= 0
            /\ Len(calls) + HalvingCalls(left) = HalvingCalls(Len(input)))
    /\ [](pc \in {"d4", "x4"} => Len(calls) = HalvingCalls(Len(input)))
    /\ [][(pc \in HalvingLoops /\ left > 0 /\ pc' = pc) =>
            /\ left' < left /\ left' >= 0
            /\ Len(calls') = Len(calls) + 1]_vars
    /\ (pc \in HalvingLoops) ~> (pc \notin HalvingLoops)

C14_Witness ==
    /\ pc = "d4" /\ Len(input) = 4 /\ Len(calls) = 3

C14_EmptyWitness ==
    /\ pc = "x4" /\ Len(input) = 0 /\ calls = <<>>

\* the chunks fed by the halving loop are on record
HalvingFed == HalvingLoops \cup {"d4", "x4"}

\* C15 (as claimed): each chunk of the halving loop is smaller than the
\* chunk fed before it.
C15_ChunksStrictlyDecrease ==
    pc \in HalvingFed =>
        \A k \in 2..Len(calls) : Len(calls[k]) < Len(calls[k - 1])

\* C15 (amended): no chunk of the halving loop is larger than the chunk fed
\* before it, and it is smaller whenever that chunk had more than one byte;
\* two chunks are equal only when they are the last two and have one byte
\* each.
C15_ChunksNeverGrow ==
    pc \in HalvingFed =>
        \A k \in 2..Len(calls) :
            /\ Len(calls[k]) >= 1
            /\ Len(calls[k]) <= Len(calls[k - 1])
            /\ Len(calls[k - 1]) > 1 => Len(calls[k]) < Len(calls[k - 1])
            /\ Len(calls[k]) = Len(calls[k - 1]) =>
                  Len(calls[k]) = 1 /\ k = Len(calls) /\ left = 0

C15_Witness ==
    /\ pc = "d4" /\ Len(calls) = 3
    /\ Len(calls[1]) = 2 /\ Len(calls[2]) = 1 /\ Len(calls[3]) = 1

\* C16: a vector handed to xof_test is compared whatever length of expected
\* output its record expresses: the run of xof_test ends by returning, never
\* by a panic of its own.
C16_XofComparesEveryLength ==
    (testFunc = "xof_test" /\ pc = "panicked" /\ evaluated = i + 1) =>
        report.kind = "mismatch"

\* a vector whose expected output fills buf passes all four strategies
C16_FullBufferPasses ==
    /\ testFunc = "xof_test" /\ pc = "returned" /\ desc = None
    /\ Len(output) = BufLen /\ stratLog = <<TRUE, TRUE, TRUE, TRUE>>

\* digest_test after a strategy that feeds the input in a single call
AfterWholeMessage ==
    pc \in {"d2", "d3"} \/ (pc = "returned" /\ Len(stratLog) <= 2)

\* digest_test in or after a strategy that feeds the input in a loop
AfterLoops ==
    pc \in {"d3_loop", "d4", "d4_loop"} \/ (pc = "returned" /\ Len(stratLog) >= 3)

\* C17: on an empty input the whole-message and post-reset strategies of
\* digest_test make one process call each, with a zero-length slice; the
\* halving and byte-by-byte strategies make none; every strategy is compared
\* with the same expected output, so where every strategy starts on a
\* fresh hasher a vector whose first and third strategies both pass shows
\* that the zero-length call left the hasher as it was.
C17_EmptyInputStrategies ==
    (testFunc = "digest_test" /\ pc \in InTest /\ input = <<>>) =>
        /\ AfterWholeMessage => calls = <<<<>>>>
        /\ AfterLoops => calls = <<>>
        /\ pc \in {"d3_loop", "d4_loop"} => left = 0
        /\ movedFrom = "reset" =>
              \A k \in 1..Len(stratLog) :
                  stratLog[k] =
                      (result(IF k <= 2 THEN Process(Default, <<>>) ELSE Default)
                         = output)
        /\ (movedFrom = "reset" /\ Len(stratLog) >= 3
              /\ stratLog[1] /\ stratLog[3]) =>
              Process(Default, <<>>) = Default

C17_Witness ==
    /\ testFunc = "digest_test" /\ pc = "returned" /\ input = <<>>
    /\ fault = "none" /\ desc = None /\ calls = <<>>
    /\ stratLog = <<TRUE, TRUE, TRUE, TRUE>>

\* an implementation that a zero-length call disturbs is caught by the
\* halving strategy when the expected output is the one it produced
C17_DisturbedWitness ==
    /\ testFunc = "digest_test" /\ pc = "returned" /\ input = <<>>
    /\ fault = "padempty" /\ movedFrom = "reset"
    /\ stratLog = <<TRUE, TRUE, FALSE>> /\ desc = "message in pieces"
====
